---- MODULE Spec2Model ----
(***************************************************************************)
(* Snooker practice simulator (src/sketch.js): table geometry, potting,    *)
(* the shot life cycle and the input handlers, as a state machine.         *)
(*                                                                         *)
(* Lengths are fixed-point integers, Scale units per pixel.  With the      *)
(* 1280 x 720 canvas of setup() every length rebuildTableGeometry derives  *)
(* is a whole number of units, so the geometry below is exact.             *)
(* Velocities are in the same units per engine step.                       *)
(*                                                                         *)
(* The physics engine (Matter.js) is an external collaborator: one         *)
(* Engine.update is a nondeterministic choice of a new position and        *)
(* velocity for every body in the world, drawn from a small set of         *)
(* representative points and velocities.                                   *)
(*                                                                         *)
(* Not modelled (cosmetic only): themes, trails, impact and pocket         *)
(* effects, confetti, the foul notice overlay and the predictor toggle.    *)
(***************************************************************************)
EXTENDS Integers, Sequences, FiniteSets, TLC

\* A JavaScript reference that may be null is a sequence of length 0 or 1.
None == <<>>
Some(v) == <<v>>

\* ------------------------------------------------------------ resolution
\* Units per pixel: the least resolution at which ballD = tableWidth / 36,
\* rail = 1.6 ballD, baulkX, dRadius and the capture radius are all whole.
Scale == 8 * 3 * 625
\* createCanvas(1280, 720)
CanvasW == 1280
CanvasH == 720

\* ------------------------------------------------------ exact arithmetic
\* floor(x * num / den) without leaving 32 bits (x >= 0).
MulFrac(x, num, den) == (x \div den) * num + ((x % den) * num) \div den

abs(x) == IF x < 0 THEN -x ELSE x
min(a, b) == IF a < b THEN a ELSE b
max(a, b) == IF a > b THEN a ELSE b
constrain(v, lo, hi) == max(min(v, hi), lo)

\* Squares of lengths do not fit 32 bits: a * a as <<hi, lo>> in base 2^24.
Limb == 64 * 64
LimbSq == Limb * Limb

Sq(a) ==
  LET m   == abs(a)
      a1  == m \div Limb
      a0  == m % Limb
      mid == 2 * a1 * a0
      lo  == (mid % Limb) * Limb + a0 * a0
  IN  <<a1 * a1 + mid \div Limb + lo \div LimbSq, lo % LimbSq>>

AddSq(p, q) ==
  LET lo == p[2] + q[2]
  IN  <<p[1] + q[1] + lo \div LimbSq, lo % LimbSq>>

LessSq(p, q) == p[1] < q[1] \/ (p[1] = q[1] /\ p[2] < q[2])

\* dist(ax, ay, bx, by) < d   and   dist(ax, ay, bx, by) <= d.  A point
\* further than d along one axis is further than d; the squares are compared
\* only for the others.
DistLess(ax, ay, bx, by, d) ==
  IF abs(ax - bx) >= d \/ abs(ay - by) >= d THEN FALSE
  ELSE LessSq(AddSq(Sq(ax - bx), Sq(ay - by)), Sq(d))

DistLeq(ax, ay, bx, by, d) ==
  IF abs(ax - bx) > d \/ abs(ay - by) > d THEN FALSE
  ELSE ~LessSq(Sq(d), AddSq(Sq(ax - bx), Sq(ay - by)))

\* |v| > s
LongerThan(v, s) ==
  IF abs(v.x) > s \/ abs(v.y) > s THEN TRUE
  ELSE IF 2 * abs(v.x) <= s /\ 2 * abs(v.y) <= s THEN FALSE
  ELSE LessSq(Sq(s), AddSq(Sq(v.x), Sq(v.y)))

\* ------------------------------------------------------------- UI_LAYOUT
topBarH == 40
bottomBarH == 32
sidePad == 20
panelW == 240
panelGap == 16

\* --------------------------------------------------- rebuildTableGeometry
\* The function's locals are operators of the values they are computed
\* from, in the order of the source.
reserveRight == panelW + panelGap + sidePad

usableHeight(height) == (height - (topBarH + bottomBarH)) * Scale

\* min(maxLengthFromWidth, lengthByHeight)
tableLength(width, height) ==
  min(IF width >= 980
        THEN (width - sidePad - reserveRight) * Scale
        ELSE MulFrac(width * Scale, 86, 100),
      MulFrac(usableHeight(height), 86, 100) * 2)

tableX(width, len) ==
  IF width >= 980 THEN sidePad * Scale ELSE (width * Scale - len) \div 2

tableY(height, wid) == topBarH * Scale + (usableHeight(height) - wid) \div 2

\* table.surface
surfaceOf(x, y, len, wid, rail) ==
  [x |-> x + rail, y |-> y + rail, w |-> len - 2 * rail, h |-> wid - 2 * rail]

\* table.spots
spotsOf(s, baulkX, dRadius, cy) ==
  [brown  |-> [x |-> baulkX, y |-> cy],
   green  |-> [x |-> baulkX, y |-> cy - dRadius],
   yellow |-> [x |-> baulkX, y |-> cy + dRadius],
   blue   |-> [x |-> s.x + s.w \div 2, y |-> cy],
   pink   |-> [x |-> s.x + MulFrac(s.w, 75, 100), y |-> cy],
   black  |-> [x |-> s.x + MulFrac(s.w, 91, 100), y |-> cy]]

\* The table record, from the surface s, the baulk line, the D's radius and
\* the centre line cy.
tableWith(x, y, len, wid, ballD, s, baulkX, dRadius, cy) ==
  [x |-> x, y |-> y, w |-> len, h |-> wid,
   rail |-> MulFrac(ballD, 16, 10), surface |-> s,
   ballD |-> ballD, ballR |-> ballD \div 2,
   pocketR |-> MulFrac(ballD, 15, 10) \div 2,
   baulkX |-> baulkX, dRadius |-> dRadius,
   dCenter |-> [x |-> baulkX, y |-> cy],
   spots |-> spotsOf(s, baulkX, dRadius, cy)]

tableOn(x, y, len, wid, ballD, s) ==
  tableWith(x, y, len, wid, ballD, s,
            s.x + MulFrac(s.w, 207, 1000), MulFrac(s.h, 165, 1000),
            s.y + s.h \div 2)

\* ballD = tableWidth / 36, rail = ballD * 1.6
tableOfWidth(x, y, len, wid, ballD) ==
  tableOn(x, y, len, wid, ballD,
          surfaceOf(x, y, len, wid, MulFrac(ballD, 16, 10)))

\* Mutant: the ball diameter taken from the table length, not its width.
tableOfLengthBallOfLength(width, height, len) ==
  tableOfWidth(tableX(width, len), tableY(height, len \div 2),
               len, len \div 2, len \div 36)
\* tableWidth = tableLength / 2
tableOfLength(width, height, len) ==
  tableOfWidth(tableX(width, len), tableY(height, len \div 2),
               len, len \div 2, (len \div 2) \div 36)

rebuildTableGeometry(width, height) ==
  tableOfLength(width, height, tableLength(width, height))

\* The canvas never changes size after setup(), so draw() never rebuilds.
table == rebuildTableGeometry(CanvasW, CanvasH)

buildPocketList ==
  LET s == table.surface
      r == table.pocketR
      inset == MulFrac(r, 2, 10)
  IN  << [id |-> "TL", x |-> s.x + inset,         y |-> s.y + inset],
         [id |-> "TM", x |-> s.x + s.w \div 2,    y |-> s.y + inset],
         [id |-> "TR", x |-> s.x + s.w - inset,   y |-> s.y + inset],
         [id |-> "BL", x |-> s.x + inset,         y |-> s.y + s.h - inset],
         [id |-> "BM", x |-> s.x + s.w \div 2,    y |-> s.y + s.h - inset],
         [id |-> "BR", x |-> s.x + s.w - inset,   y |-> s.y + s.h - inset] >>

pockets == buildPocketList

\* ------------------------------------------------------------ predicates
pointInSurface(px, py, marginR) ==
  LET s == table.surface
  IN  /\ px >= s.x + marginR
      /\ px <= s.x + s.w - marginR
      /\ py >= s.y + marginR
      /\ py <= s.y + s.h - marginR

\* Mutant: the whole circle of the D, the baulk line forgotten.
pointInDWholeCircle(px, py) ==
  IF ~pointInSurface(px, py, table.ballR) THEN FALSE
  ELSE DistLeq(px, py, table.dCenter.x, table.dCenter.y, table.dRadius)

pointInD(px, py) ==
  IF ~pointInSurface(px, py, table.ballR) THEN FALSE
  ELSE IF px > table.baulkX THEN FALSE
  ELSE DistLeq(px, py, table.dCenter.x, table.dCenter.y, table.dRadius)

pointInRect(px, py, r) ==
  px >= r.x /\ px <= r.x + r.w /\ py >= r.y /\ py <= r.y + r.h

\* Mutant: only the balls of listA are scanned.
nonOverlappingFirstList(x, y, r, listA, listB, cue) ==
  LET minDist == MulFrac(r, 205, 100)
  IN  \A i \in 1..Len(listA) :
        listA[i].potted \/
          ~DistLess(x, y, listA[i].body.position.x, listA[i].body.position.y,
                    minDist)
\* Live balls of listA, listB and the cue, as nonOverlapping scans them.
nonOverlapping(x, y, r, listA, listB, cue) ==
  LET all == listA \o listB \o cue
      minDist == MulFrac(r, 205, 100)
  IN  \A i \in 1..Len(all) :
        all[i].potted \/
          ~DistLess(x, y, all[i].body.position.x, all[i].body.position.y, minDist)

\* ----------------------------------------------------------------- balls
Zero == [x |-> 0, y |-> 0]

\* createBall: a live ball whose body is at rest at (x, y).  The caller adds
\* the body to the world (World.add).  Red and cue ids are random numbers in
\* the source; they are taken to be distinct.
createBall(x, y, r, colour, id, isCue, isRed) ==
  [id |-> id, colour |-> colour, r |-> r, isCue |-> isCue, isRed |-> isRed,
   potted |-> FALSE,
   body |-> [position |-> [x |-> x, y |-> y], velocity |-> Zero, force |-> <<>>]]

createColouredBalls ==
  LET r == table.ballR
      s == table.spots
  IN  << createBall(s.yellow.x, s.yellow.y, r, "#f6e85d", "yellow", FALSE, FALSE),
         createBall(s.green.x,  s.green.y,  r, "#2ecc71", "green", FALSE, FALSE),
         createBall(s.brown.x,  s.brown.y,  r, "#8e5a2b", "brown", FALSE, FALSE),
         createBall(s.blue.x,   s.blue.y,   r, "#2e6cf6", "blue", FALSE, FALSE),
         createBall(s.pink.x,   s.pink.y,   r, "#f5a3c7", "pink", FALSE, FALSE),
         createBall(s.black.x,  s.black.y,  r, "#222222", "black", FALSE, FALSE) >>

RedIds == <<"ball_1", "ball_2", "ball_3", "ball_4", "ball_5",
            "ball_6", "ball_7", "ball_8", "ball_9", "ball_10",
            "ball_11", "ball_12", "ball_13", "ball_14", "ball_15">>
CueId == "ball_0"
\* The reds a layout loop asks for: for (let i = 0; i < 15; i++), 5 rows, 3 x 5.
RedCount == 15

RedColour == "#c1121f"
CueColour == "#f5f5f5"

\* ---------------------------------------------------------------- layouts
\* Each generator takes n, the number of loop iterations the model runs
\* (the source runs 15), and returns the list of reds.

\* One row of the triangle: cols 0..row.
TriangleRow(row) ==
  LET d == table.ballD
      s == table.surface
      apexX == table.spots.pink.x + d * 2
      centerY == s.y + s.h \div 2
      xStep == MulFrac(d, 98, 100)
      yStep == MulFrac(d, 105, 100)
  IN  [c \in 1..(row + 1) |->
         [x |-> apexX + row * xStep,
          y |-> centerY + ((2 * (c - 1) - row) * yStep) \div 2]]

TrianglePositions ==
  TriangleRow(0) \o TriangleRow(1) \o TriangleRow(2) \o TriangleRow(3)
    \o TriangleRow(4)

\* Mutant: the row loop stops one row early.
createRedsFourRows(n) ==
  [k \in 1..min(n, 10) |->
     createBall(TrianglePositions[k].x, TrianglePositions[k].y, table.ballR,
                RedColour, RedIds[k], FALSE, TRUE)]
createRedsStandardTriangle(n) ==
  [k \in 1..min(n, Len(TrianglePositions)) |->
     createBall(TrianglePositions[k].x, TrianglePositions[k].y, table.ballR,
                RedColour, RedIds[k], FALSE, TRUE)]

\* Clustered layout.  draws[i] is the random point of the first attempt for
\* red i that passes both tests, or None when all 300 attempts fail; a drawn
\* point that fails a test counts as a failed attempt.
RECURSIVE ClusteredFrom(_, _, _, _, _)
ClusteredFrom(i, n, draws, list, colours) ==
  IF i >= n THEN list
  ELSE
    LET r == table.ballR
        d == table.ballD
        ok(px, py) == pointInSurface(px, py, r)
                        /\ nonOverlapping(px, py, r, list, colours, None)
        placed == draws[i + 1] # None
                    /\ ok(draws[i + 1][1].x, draws[i + 1][1].y)
        fx == table.spots.pink.x + d * 2 + (i % 5) * MulFrac(d, 11, 10)
        fy == (table.surface.y + table.surface.h \div 2)
                + ((i \div 5) - 1) * MulFrac(d, 12, 10)
        id == RedIds[Len(list) + 1]
        next ==
          IF placed
            THEN Append(list, createBall(draws[i + 1][1].x, draws[i + 1][1].y,
                                         r, RedColour, id, FALSE, TRUE))
          ELSE IF ok(fx, fy)
            THEN Append(list, createBall(fx, fy, r, RedColour, id, FALSE, TRUE))
          ELSE list
    IN  ClusteredFrom(i + 1, n, draws, next, colours)

createRedsClusteredRandom(n, draws, colours) ==
  ClusteredFrom(0, n, draws, <<>>, colours)

\* Practice layout: cells of the 3 x 5 grid in row-major order.
RECURSIVE PracticeFrom(_, _, _, _)
PracticeFrom(cell, n, list, colours) ==
  IF cell >= n THEN list
  ELSE
    LET r == table.ballR
        d == table.ballD
        s == table.surface
        cols == 5
        row == cell \div cols
        col == cell % cols
        startX == s.x + MulFrac(s.w, 60, 100)
        startY == s.y + MulFrac(s.h, 22, 100)
        px == startX + col * MulFrac(d, 22, 10)
        py == startY + row * MulFrac(d, 22, 10)
        next ==
          IF pointInSurface(px, py, r)
               /\ nonOverlapping(px, py, r, list, colours, None)
            THEN Append(list, createBall(px, py, r, RedColour,
                                         RedIds[Len(list) + 1], FALSE, TRUE))
            ELSE list
    IN  PracticeFrom(cell + 1, n, next, colours)

createRedsPracticeLayout(n, colours) == PracticeFrom(0, min(n, 15), <<>>, colours)

\* ------------------------------------------------------------------ state
VARIABLES
  reds, colours, cueBall,   \* ball lists and the cue-ball slot
  world,                    \* ids of the ball bodies in the physics world
  mode, gameOver,
  aimAngle,                 \* hundredths of a radian
  aimPower,                 \* hundredths: 0..100 stands for [0, 1]
  isAiming, dragPower,
  shotsTaken, shotInProgress, shotPottedThisShot, shotFoulThisShot, shotLog,
  resetRect,                \* ui.resetRect
  potsOpen,                 \* history: pots since the open shot was fired
  hist,                     \* history: every shot finalized since the last reset
  keyTicks,                 \* history: frames drawn with an aim key held
  mouseDown,                \* the mouse button is held (the browser's state)
  ev,                       \* history: the handler that ran last and its calls
  lim                       \* the bounds of this run (never changes)

vars == <<reds, colours, cueBall, world, mode, gameOver, aimAngle, aimPower,
          isAiming, dragPower, shotsTaken, shotInProgress, shotPottedThisShot,
          shotFoulThisShot, shotLog, resetRect, potsOpen, hist, keyTicks,
          mouseDown, ev, lim>>

\* The program's globals as one record, so that a handler is a function from
\* globals to globals.  trace lists the calls the running handler has made.
Globals ==
  [reds |-> reds, colours |-> colours, cueBall |-> cueBall, world |-> world,
   mode |-> mode, gameOver |-> gameOver, aimAngle |-> aimAngle,
   aimPower |-> aimPower, isAiming |-> isAiming, dragPower |-> dragPower,
   shotsTaken |-> shotsTaken, shotInProgress |-> shotInProgress,
   shotPottedThisShot |-> shotPottedThisShot,
   shotFoulThisShot |-> shotFoulThisShot, shotLog |-> shotLog,
   resetRect |-> resetRect, potsOpen |-> potsOpen, hist |-> hist,
   trace |-> <<>>]

\* [...reds, ...colours] and the cue ball if there is one.
AllBalls(g) == g.reds \o g.colours \o g.cueBall

Ids(list) == {list[i].id : i \in 1..Len(list)}

\* ------------------------------------------------------------ rest tests
\* 0.08 px per step
restThreshold == MulFrac(Scale, 8, 100)

ballIsMoving(b) ==
  IF b.potted THEN FALSE
  ELSE abs(b.body.velocity.x) > restThreshold
         \/ abs(b.body.velocity.y) > restThreshold

areAnyBallsMoving(g) ==
  \E i \in 1..Len(AllBalls(g)) : ballIsMoving(AllBalls(g)[i])

isCueBallResting(g) ==
  IF g.cueBall = None THEN FALSE
  ELSE abs(g.cueBall[1].body.velocity.x) < restThreshold
         /\ abs(g.cueBall[1].body.velocity.y) < restThreshold

\* ------------------------------------------------------- modes and resets
clearBallsOnly(g) ==
  [g EXCEPT !.world = g.world \ Ids(AllBalls(g)),
            !.reds = <<>>, !.colours = <<>>, !.cueBall = None]

\* setMode(nextMode); n and draws are as in the layout generators.
\* The reds of mode nextMode, given the colours cs already on the table.
createReds(nextMode, n, draws, cs, old) ==
  IF nextMode = 1 THEN createRedsStandardTriangle(n)
  ELSE IF nextMode = 2 THEN createRedsClusteredRandom(n, draws, cs)
  ELSE IF nextMode = 3 THEN createRedsPracticeLayout(n, cs)
  ELSE old

\* The assignments of setMode after the balls cs and rs are created.
\* Mutant: a reset that keeps the shot counter and the shot log.
startFrameKeepLog(g, cs, rs) ==
  [g EXCEPT !.colours = cs, !.reds = rs,
            !.world = @ \cup Ids(cs) \cup Ids(rs),
            !.cueBall = None,
            !.aimPower = 35, !.aimAngle = 0,
            !.shotInProgress = FALSE,
            !.shotPottedThisShot = <<>>, !.shotFoulThisShot = FALSE,
            !.trace = Append(@, [call |-> "setMode"])]
startFrame(g, cs, rs) ==
  [g EXCEPT !.colours = cs, !.reds = rs,
            !.world = @ \cup Ids(cs) \cup Ids(rs),
            !.cueBall = None,
            !.aimPower = 35, !.aimAngle = 0,
            !.shotsTaken = 0, !.shotInProgress = FALSE,
            !.shotPottedThisShot = <<>>, !.shotFoulThisShot = FALSE,
            !.shotLog = <<>>,
            !.potsOpen = <<>>, !.hist = <<>>,
            !.trace = Append(@, [call |-> "setMode"])]

layBalls(g, nextMode, n, draws, cs) ==
  startFrame(g, cs, createReds(nextMode, n, draws, cs, g.reds))

setMode(g, nextMode, n, draws) ==
  layBalls(clearBallsOnly([g EXCEPT !.mode = nextMode, !.gameOver = FALSE]),
           nextMode, n, draws, createColouredBalls)

resetTable(g, n, draws) == setMode(g, g.mode, n, draws)

\* ---------------------------------------------------------------- potting
\* The k-th ball of [...reds, ...colours, cueBall] as built when a scan starts.
BallAt(g, k) ==
  IF k <= Len(g.reds) THEN g.reds[k]
  ELSE IF k <= Len(g.reds) + Len(g.colours) THEN g.colours[k - Len(g.reds)]
  ELSE g.cueBall[1]

SetBall(g, k, b) ==
  IF k <= Len(g.reds) THEN [g EXCEPT !.reds[k] = b]
  ELSE IF k <= Len(g.reds) + Len(g.colours)
    THEN [g EXCEPT !.colours[k - Len(g.reds)] = b]
  ELSE [g EXCEPT !.cueBall = Some(b)]

\* Mutant: reds.every((r) => r), the potted flag forgotten.
redsClearedUnchecked(rs) == Len(rs) > 0 /\ \A i \in 1..Len(rs) : rs[i].isRed

\* reds.length > 0 && reds.every((r) => r && r.potted)
redsCleared(rs) == Len(rs) > 0 /\ \A i \in 1..Len(rs) : rs[i].potted

\* The shot bookkeeping of potBall.
recordPot(g, ball) ==
  IF g.shotInProgress
    THEN IF ball.isCue
           THEN [g EXCEPT !.shotFoulThisShot = TRUE]
           ELSE [g EXCEPT !.shotPottedThisShot =
                            Append(@, [id |-> ball.id, colour |-> ball.colour])]
    ELSE g

\* if (!ball.isCue && ball.id === 'black') ...
endFrameOnBlack(g, ball) ==
  IF ~ball.isCue /\ ball.id = "black" /\ redsCleared(g.reds)
    THEN [g EXCEPT !.gameOver = TRUE]
    ELSE g

\* if (ball.isCue) cueBall = null
dropCue(g, ball) == IF ball.isCue THEN [g EXCEPT !.cueBall = None] ELSE g

\* The record of the call, for the history: g is the state at the call, g1
\* the state at its return.
notePot(g, g1, ball, pocket) ==
  [g1 EXCEPT
     !.potsOpen = IF g.shotInProgress
                       /\ \A i \in 1..Len(@) : @[i].id # ball.id
                    THEN Append(@, [id |-> ball.id, isCue |-> ball.isCue])
                    ELSE @,
     !.trace = Append(@,
        [call |-> "potBall", id |-> ball.id, isCue |-> ball.isCue,
         pocket |-> pocket.id, wasPotted |-> ball.potted,
         wasInWorld |-> ball.id \in g.world,
         shotOpen |-> g.shotInProgress,
         redFlags |-> [i \in 1..Len(g.reds) |-> g.reds[i].potted],
         gameOverBefore |-> g.gameOver, gameOverAfter |-> g1.gameOver])]

removeBall(g, k, ball) ==
  [SetBall(g, k, [ball EXCEPT !.potted = TRUE]) EXCEPT !.world = @ \ {ball.id}]

potBallOf(g, k, ball, pocket) ==
  notePot(g,
          dropCue(endFrameOnBlack(recordPot(removeBall(g, k, ball), ball), ball),
                  ball),
          ball, pocket)

potBall(g, k, pocket) == potBallOf(g, k, BallAt(g, k), pocket)

\* forgiving pot radius: table.pocketR * 1.18
potRadius == MulFrac(table.pocketR, 118, 100)

\* Index of the first pocket whose centre is closer than pr, 0 if none.
RECURSIVE FirstPocket(_, _, _)
FirstPocket(pos, pr, i) ==
  IF i > Len(pockets) THEN 0
  ELSE IF DistLess(pos.x, pos.y, pockets[i].x, pockets[i].y, pr) THEN i
  ELSE FirstPocket(pos, pr, i + 1)

\* Mutant: the scan does not skip potted balls.
potIfInPocketNoSkip(g, k) ==
  LET b == BallAt(g, k)
      p == FirstPocket(b.body.position, potRadius, 1)
  IN  IF p > 0 THEN potBall(g, k, pockets[p]) ELSE g

\* One iteration of the loop over all: skip a potted ball, else test pockets.
potIfInPocket(g, k) ==
  LET b == BallAt(g, k)
      p == FirstPocket(b.body.position, potRadius, 1)
  IN  IF b.potted THEN g
      ELSE IF p > 0 THEN potBall(g, k, pockets[p])
      ELSE g

RECURSIVE HandlePottingFrom(_, _, _)
HandlePottingFrom(g, k, n) ==
  IF k > n THEN g ELSE HandlePottingFrom(potIfInPocket(g, k), k + 1, n)

handlePotting(g) == HandlePottingFrom(g, 1, Len(AllBalls(g)))

\* --------------------------------------------------------------- the shot
\* shotLog keeps at most this many entries.
LogCap == 60

\* shotLog.slice(shotLog.length - 60)
\* Mutant: keeps the first LogCap entries, dropping the newest.
capLogKeepOldest(log) ==
  IF Len(log) > LogCap THEN SubSeq(log, 1, LogCap) ELSE log

capLog(log) ==
  IF Len(log) > LogCap THEN SubSeq(log, Len(log) - LogCap + 1, Len(log)) ELSE log

\* Mutant: a pot of any other ball hides the foul.
shotOutcomePottedFirst(g) ==
  IF Len(g.shotPottedThisShot) > 0 THEN "Potted"
  ELSE IF g.shotFoulThisShot THEN "Foul"
  ELSE "Miss"

shotOutcome(g) ==
  IF g.shotFoulThisShot THEN "Foul"
  ELSE IF Len(g.shotPottedThisShot) > 0 THEN "Potted"
  ELSE "Miss"

finalizeShotIfSettled(g) ==
  IF ~g.shotInProgress THEN g
  ELSE IF areAnyBallsMoving(g) THEN g
  ELSE
    LET entry == [n |-> g.shotsTaken, outcome |-> shotOutcome(g),
                  potted |-> g.shotPottedThisShot]
    IN  [g EXCEPT !.shotLog = capLog(Append(@, entry)),
                  !.shotInProgress = FALSE,
                  !.shotPottedThisShot = <<>>,
                  !.shotFoulThisShot = FALSE,
                  !.hist = Append(@, entry),
                  !.potsOpen = <<>>,
                  !.trace = Append(@, [call |-> "finalize", entry |-> entry,
                                        pots |-> g.potsOpen])]

\* Body.applyForce adds the impulse to the body's force, which the next
\* Engine.update turns into velocity and clears.  fMag = 0.012 * aimPower,
\* in units of 0.00001.
\* Mutant: fires although some other ball still moves.
tryShootCueOnly(g) ==
  IF g.cueBall = None THEN g
  ELSE IF ~isCueBallResting(g) THEN g
  ELSE
    LET force == [fMag |-> 12 * g.aimPower, angle |-> g.aimAngle]
    IN  [g EXCEPT !.shotsTaken = @ + 1,
                  !.shotInProgress = TRUE,
                  !.shotPottedThisShot = <<>>,
                  !.shotFoulThisShot = FALSE,
                  !.cueBall[1].body.force = Append(@, force),
                  !.potsOpen = <<>>,
                  !.trace = Append(@, [call |-> "applyForce", force |-> force])]

tryShoot(g) ==
  IF g.cueBall = None THEN g
  ELSE IF ~isCueBallResting(g) THEN g
  ELSE IF areAnyBallsMoving(g) THEN g
  ELSE
    LET force == [fMag |-> 12 * g.aimPower, angle |-> g.aimAngle]
    IN  [g EXCEPT !.shotsTaken = @ + 1,
                  !.shotInProgress = TRUE,
                  !.shotPottedThisShot = <<>>,
                  !.shotFoulThisShot = FALSE,
                  !.cueBall[1].body.force = Append(@, force),
                  !.potsOpen = <<>>,
                  !.trace = Append(@, [call |-> "applyForce", force |-> force])]

\* ------------------------------------------------------------ the engine
\* Representative velocities: at rest, below the rest threshold on both axes
\* (creeping), and above it on one axis (rolling).
Creep == [x |-> -(restThreshold - 1), y |-> restThreshold \div 2]
Roll == [x |-> restThreshold \div 2, y |-> -(restThreshold + 1)]

\* The pocket each representative path leads to: cue to TL, reds to TR,
\* colours to BR.
PocketOf(b) ==
  IF b.isCue THEN pockets[1] ELSE IF b.isRed THEN pockets[3] ELSE pockets[6]

\* A point at distance 5 * k from pocket p, towards the middle of the table.
TowardsTable(p, k) ==
  LET s == table.surface
      sx == IF p.x < s.x + s.w \div 2 THEN 1 ELSE -1
      sy == IF p.y < s.y + s.h \div 2 THEN 1 ELSE -1
  IN  [x |-> p.x + sx * 3 * k, y |-> p.y + sy * 4 * k]

\* On the edge of the capture circle, and just inside it.
EdgePoint(b) == TowardsTable(PocketOf(b), potRadius \div 5)
InPoint(b) == TowardsTable(PocketOf(b), potRadius \div 5 - 1)

\* What one frame of Engine.update calls may do to one body.
Tags == {"stop", "roll", "creep", "pocket"}

moveBody(b, tag) ==
  LET body ==
        IF tag = "stop" THEN [b.body EXCEPT !.velocity = Zero]
        ELSE IF tag = "roll" THEN [b.body EXCEPT !.velocity = Roll]
        ELSE IF tag = "creep"
          THEN [b.body EXCEPT !.position = EdgePoint(b), !.velocity = Creep]
        ELSE [b.body EXCEPT !.position = InPoint(b), !.velocity = Roll]
  IN  [b EXCEPT !.body = [body EXCEPT !.force = <<>>]]

\* Some body of the world moves or has a force on it.
worldActive(g) ==
  \E i \in 1..Len(AllBalls(g)) :
    LET b == AllBalls(g)[i]
    IN  b.id \in g.world /\ (b.body.velocity # Zero \/ b.body.force # <<>>)

\* The bodies an update may move: those of the world among the cue ball, the
\* reds and the last nCols colours.
movable(g, nCols) ==
  {k \in 1..Len(AllBalls(g)) :
     /\ AllBalls(g)[k].id \in g.world
     /\ \/ k <= Len(g.reds)
        \/ k > Len(g.reds) + Len(g.colours) - nCols}

\* The Engine.update calls of one frame, with outcome ch: a tag for each
\* movable body.  A world in which nothing moves stays as it is.
RECURSIVE MoveFrom(_, _, _)
MoveFrom(g, ch, k) ==
  IF k > Len(AllBalls(g)) THEN g
  ELSE MoveFrom(IF k \in DOMAIN ch
                  THEN SetBall(g, k, moveBody(BallAt(g, k), ch[k]))
                  ELSE g,
                ch, k + 1)

stepPhysics(g, ch) == IF worldActive(g) THEN MoveFrom(g, ch, 1) ELSE g

\* ------------------------------------------------------------- stepBalls
\* floor(sqrt(hi * 2^24 + lo)) by bisection.
RECURSIVE RootBetween(_, _, _)
RootBetween(q, lo, hi) ==
  IF hi - lo <= 1 THEN lo
  ELSE LET m == (lo + hi) \div 2
       IN  IF LessSq(q, Sq(m)) THEN RootBetween(q, lo, m)
           ELSE RootBetween(q, m, hi)

magnitude(v) == RootBetween(AddSq(Sq(v.x), Sq(v.y)), 0, LimbSq)

\* vel * (maxSpeed / speed), the ratio taken to one part in a thousand.
scaleVelocity(v, maxSpeed, speed) ==
  LET permille == (maxSpeed * 1000) \div speed
      part(c) == IF c < 0 THEN -MulFrac(-c, permille, 1000)
                 ELSE MulFrac(c, permille, 1000)
  IN  [x |-> part(v.x), y |-> part(v.y)]

\* Mutant: an escaped ball is put back but keeps its velocity.
stepBallKeepVelocity(b) ==
  IF b.potted THEN b
  ELSE
    LET s == table.surface
        r == table.ballR
        pos == b.body.position
        margin == r * 4
    IN  IF pos.x < s.x - margin \/ pos.x > s.x + s.w + margin
             \/ pos.y < s.y - margin \/ pos.y > s.y + s.h + margin
          THEN [b EXCEPT
                  !.body.position =
                     [x |-> constrain(pos.x, s.x + r, s.x + s.w - r),
                      y |-> constrain(pos.y, s.y + r, s.y + s.h - r)]]
          ELSE b
stepBall(b) ==
  IF b.potted THEN b
  ELSE
    LET s == table.surface
        r == table.ballR
        pos == b.body.position
        margin == r * 4
        outLeft == pos.x < s.x - margin
        outRight == pos.x > s.x + s.w + margin
        outTop == pos.y < s.y - margin
        outBottom == pos.y > s.y + s.h + margin
        b1 == IF outLeft \/ outRight \/ outTop \/ outBottom
                THEN [b EXCEPT
                        !.body.position =
                           [x |-> constrain(pos.x, s.x + r, s.x + s.w - r),
                            y |-> constrain(pos.y, s.y + r, s.y + s.h - r)],
                        !.body.velocity = Zero]
                ELSE b
        vel == b1.body.velocity
        maxSpeed == MulFrac(table.ballD, 42, 10)
    IN  IF LongerThan(vel, maxSpeed)
          THEN [b1 EXCEPT !.body.velocity =
                             scaleVelocity(vel, maxSpeed, magnitude(vel))]
          ELSE b1

stepBalls(g) ==
  [g EXCEPT !.reds = [i \in 1..Len(g.reds) |-> stepBall(g.reds[i])],
            !.colours = [i \in 1..Len(g.colours) |-> stepBall(g.colours[i])],
            !.cueBall = [i \in 1..Len(g.cueBall) |-> stepBall(g.cueBall[i])]]

\* ------------------------------------------------------------------ draw
\* pointer: atan2(mouseY - cb.y, mouseX - cb.x); keys: the aim keys held.
drawCueAndGuides(g, pointer, keys) ==
  IF g.gameOver THEN g
  ELSE IF g.cueBall = None THEN g
  ELSE IF isCueBallResting(g) /\ ~areAnyBallsMoving(g)
    THEN
      LET a1 == IF "A" \in keys THEN pointer - 3 ELSE pointer
          a2 == IF "D" \in keys THEN a1 + 3 ELSE a1
          p1 == IF "W" \in keys THEN constrain(g.aimPower + 1, 0, 100)
                ELSE g.aimPower
          p2 == IF "S" \in keys THEN constrain(p1 - 1, 0, 100) ELSE p1
      IN  [g EXCEPT !.aimAngle = a2, !.aimPower = p2]
  ELSE g

\* The RESET button of drawHUD.
resetButton ==
  LET btnW == 86
      btnH == 20
      btnX == 14
  IN  [x |-> btnX * Scale,
       y |-> CanvasH * Scale - (bottomBarH * Scale) \div 2 - (btnH * Scale) \div 2,
       w |-> btnW * Scale, h |-> btnH * Scale]

drawHUD(g) == [g EXCEPT !.resetRect = Some(resetButton)]

simulate(g, ch) ==
  finalizeShotIfSettled(handlePotting(stepBalls(stepPhysics(g, ch))))

\* Mutant: the simulation keeps running after the frame is over.
drawAlwaysSimulates(g, ch, pointer, keys) ==
  drawHUD(drawCueAndGuides(simulate(g, ch), pointer, keys))

draw(g, ch, pointer, keys) ==
  LET g1 == IF ~g.gameOver THEN simulate(g, ch) ELSE g
  IN  drawHUD(drawCueAndGuides(g1, pointer, keys))

\* --------------------------------------------------------------- handlers
modeKey(g, key, k, nextMode, n, draws) ==
  IF key = k THEN setMode(g, nextMode, n, draws) ELSE g

resetKey(g, key, n, draws) ==
  IF key = "Enter" \/ key = "n" \/ key = "N" THEN resetTable(g, n, draws) ELSE g

fireKey(g, key) ==
  IF ~g.gameOver /\ g.cueBall # None
    THEN IF key = " " THEN tryShoot(g) ELSE g
    ELSE g

\* The ifs of keyPressed, one after the other; the theme and predictor keys
\* change nothing here.
keyPressed(g, key, n, draws) ==
  fireKey(
    resetKey(
      modeKey(modeKey(modeKey(g, key, "1", 1, n, draws), key, "2", 2, n, draws),
              key, "3", 3, n, draws),
      key, n, draws),
    key)

mousePressed(g, mx, my, n, draws) ==
  IF (g.resetRect # None /\ pointInRect(mx, my, g.resetRect[1])) \/ g.gameOver
    THEN resetTable(g, n, draws)
  ELSE IF g.cueBall = None
    THEN IF pointInD(mx, my)
           THEN [g EXCEPT
                   !.cueBall = Some(createBall(mx, my, table.ballR, CueColour,
                                               CueId, TRUE, FALSE)),
                   !.world = @ \cup {CueId},
                   !.trace = Append(@, [call |-> "createBall", x |-> mx, y |-> my])]
           ELSE g
  ELSE IF isCueBallResting(g) /\ ~areAnyBallsMoving(g)
    THEN [g EXCEPT !.isAiming = TRUE,
                   !.dragPower = Some([start |-> g.cueBall[1].body.position])]
  ELSE g

\* d: the distance of the pointer from dragPower.start.
mouseDragged(g, d) ==
  IF g.gameOver THEN g
  ELSE IF g.cueBall = None THEN g
  ELSE IF ~g.isAiming \/ g.dragPower = None THEN g
  ELSE LET maxD == table.ballD * 10
       IN  [g EXCEPT !.aimPower = constrain((d * 100) \div maxD, 0, 100)]

mouseReleased(g) ==
  IF g.gameOver THEN g
  ELSE IF g.isAiming
    THEN tryShoot([g EXCEPT !.isAiming = FALSE, !.dragPower = None])
  ELSE g

\* ---------------------------------------------------------- substepping
\* Times are whole numbers of 1/6 ms, in which 1000 / 60 and 1000 / 30 ms
\* and the halves of a frame are whole.
FrameUnit == 6

maxStepMs == (1000 * FrameUnit) \div 60

\* Mutant: the frame time is not capped.
clampDeltaOpen(ms) == max(ms, 0)

clampDelta(ms) == constrain(ms, 0, (1000 * FrameUnit) \div 30)

\* ceil(a / b)
ceil(a, b) == (a + b - 1) \div b

\* steps = constrain(ceil(frameMs / maxStepMs), 1, 5)
substeps(frameMs) == constrain(ceil(frameMs, maxStepMs), 1, 5)

\* The stepMs of each Engine.update call, as the fraction frameMs / steps.
updatesOf(frameMs, steps) ==
  [i \in 1..steps |-> [num |-> frameMs, den |-> steps]]

\* The Engine.update calls stepPhysics makes for a frame of deltaTime.
engineUpdates(deltaTime) ==
  updatesOf(clampDelta(deltaTime), substeps(clampDelta(deltaTime)))
\* ---------------------------------------------------- trajectory predictor
\* predictor.maxBounces
maxBounces == 3

\* A direction (cos(angle), sin(angle)) is a pair of whole numbers of
\* DirDen-ths with length 1: the multiples of a right angle and the angles
\* of the 3-4-5 triangle.
DirDen == 5

\* a / b rounded down, for either sign of b.
Quot(a, b) == IF b > 0 THEN a \div b ELSE (-a) \div (-b)

\* The hits nearer than 0.0001 px are dropped: t > 0.0001.
Tiny == Scale \div 10000

\* Hit of the ray with the line x = wx, if it lies on the rectangle.
wallX(ox, oy, d, b, wx, nx) ==
  IF Quot(DirDen * (wx - ox), d.x) > Tiny
       /\ oy + Quot((wx - ox) * d.y, d.x) >= b.minY
       /\ oy + Quot((wx - ox) * d.y, d.x) <= b.maxY
    THEN << [t |-> Quot(DirDen * (wx - ox), d.x),
             x |-> wx, y |-> oy + Quot((wx - ox) * d.y, d.x),
             n |-> [x |-> nx, y |-> 0]] >>
    ELSE <<>>

wallY(ox, oy, d, b, wy, ny) ==
  IF Quot(DirDen * (wy - oy), d.y) > Tiny
       /\ ox + Quot((wy - oy) * d.x, d.y) >= b.minX
       /\ ox + Quot((wy - oy) * d.x, d.y) <= b.maxX
    THEN << [t |-> Quot(DirDen * (wy - oy), d.y),
             x |-> ox + Quot((wy - oy) * d.x, d.y), y |-> wy,
             n |-> [x |-> 0, y |-> ny]] >>
    ELSE <<>>

\* The first of the hits with the least t (each test is t < bestT), or None.
firstNearest(hits) ==
  IF hits = <<>> THEN None
  ELSE Some(hits[CHOOSE i \in 1..Len(hits) :
                   \A j \in 1..Len(hits) :
                     hits[j].t > hits[i].t \/ (hits[j].t = hits[i].t /\ j >= i)])

rayRectHit(ox, oy, d, b) ==
  firstNearest(
    (IF d.x # 0 THEN wallX(ox, oy, d, b, b.minX, -1) \o wallX(ox, oy, d, b, b.maxX, 1)
                ELSE <<>>)
    \o (IF d.y # 0 THEN wallY(ox, oy, d, b, b.minY, -1) \o wallY(ox, oy, d, b, b.maxY, 1)
                   ELSE <<>>))

\* floor(sqrt(n)) for n < 2^24, by bisection.
RECURSIVE Bisect(_, _, _)
Bisect(n, lo, hi) ==
  IF hi - lo <= 1 THEN lo
  ELSE IF ((lo + hi) \div 2) * ((lo + hi) \div 2) <= n
    THEN Bisect(n, (lo + hi) \div 2, hi)
    ELSE Bisect(n, lo, (lo + hi) \div 2)

\* sqrt(disc) / 2 = sqrt(radius^2 - q^2), q the distance of the centre from
\* the line of the ray; computed in steps of 64 units.
halfChord(radius, q) ==
  64 * Bisect((radius \div 64) * (radius \div 64) - (q \div 64) * (q \div 64),
              0, Limb)

\* t1 and t2 are proj - h and proj + h.
circleRoots(proj, h) ==
  IF proj - h > Tiny THEN Some(proj - h)
  ELSE IF proj + h > Tiny THEN Some(proj + h)
  ELSE None

\* With |d| = 1, disc = 4 (radius^2 - q^2) where q = |f x d|, and
\* -b / 2 = -(f . d).
rayCircleOf(fx, fy, d, radius) ==
  IF abs(fx * d.y - fy * d.x) > DirDen * radius THEN None
  ELSE circleRoots(-((fx * d.x + fy * d.y) \div DirDen),
                   halfChord(radius, abs(fx * d.y - fy * d.x) \div DirDen))

rayCircleHit(ox, oy, d, cx, cy, radius) ==
  rayCircleOf(ox - cx, oy - cy, d, radius)
\* The live targets hit by the ray, in the order of targets, with t > 0.
RECURSIVE ballHits(_, _, _, _, _)
ballHits(ox, oy, d, targets, k) ==
  IF k > Len(targets) THEN <<>>
  ELSE (IF rayCircleHit(ox, oy, d, targets[k].body.position.x,
                        targets[k].body.position.y,
                        table.ballR + targets[k].r) = None
          THEN <<>>
          ELSE << [t |-> rayCircleHit(ox, oy, d, targets[k].body.position.x,
                                      targets[k].body.position.y,
                                      table.ballR + targets[k].r)[1],
                   id |-> targets[k].id] >>)
       \o ballHits(ox, oy, d, targets, k + 1)

bestBall(ox, oy, d, targets) ==
  firstNearest(SelectSeq(ballHits(ox, oy, d, targets, 1), LAMBDA h : h.t > 0))

\* Mutant: the ray is sent back the way it came.
reflectBack(d, n) == [x |-> -d.x, y |-> -d.y]
\* d - 2 (d . n) n
reflect(d, n) ==
  [x |-> d.x - 2 * (d.x * n.x + d.y * n.y) * n.x,
   y |-> d.y - 2 * (d.x * n.x + d.y * n.y) * n.y]

\* Mutant: the loop runs while bounce < maxBounces.
loopGuardStrict(bounce) == bounce < maxBounces

\* for (let bounce = 0; bounce <= predictor.maxBounces; bounce++)
loopGuard(bounce) == bounce <= maxBounces

\* One pass of the loop with the hits wall and ball found; path holds the
\* points pushed and a record of each pass made so far.
RECURSIVE predictFrom(_, _, _, _, _, _, _)
RECURSIVE predictPass(_, _, _, _, _, _, _, _, _)
predictPass(bounce, ox, oy, d, targets, b, path, wall, ball) ==
  IF ball # None /\ (wall = None \/ ball[1].t < wall[1].t)
    THEN [points |-> Append(path.points,
                            [x |-> ox + (d.x * ball[1].t) \div DirDen,
                             y |-> oy + (d.y * ball[1].t) \div DirDen]),
          hitBall |-> Some(ball[1].id),
          passes |-> Append(path.passes,
                            [d |-> d, wall |-> wall, ball |-> ball, out |-> None])]
  ELSE IF wall = None
    THEN [path EXCEPT !.passes =
            Append(@, [d |-> d, wall |-> wall, ball |-> ball, out |-> None])]
  ELSE predictFrom(bounce + 1,
                   wall[1].x + (reflect(d, wall[1].n).x * (Scale \div 2)) \div DirDen,
                   wall[1].y + (reflect(d, wall[1].n).y * (Scale \div 2)) \div DirDen,
                   reflect(d, wall[1].n), targets, b,
                   [path EXCEPT
                      !.points = Append(@, [x |-> wall[1].x, y |-> wall[1].y]),
                      !.passes = Append(@, [d |-> d, wall |-> wall, ball |-> ball,
                                            out |-> Some(reflect(d, wall[1].n))])])

predictFrom(bounce, ox, oy, d, targets, b, path) ==
  IF ~loopGuard(bounce) THEN path
  ELSE predictPass(bounce, ox, oy, d, targets, b, path,
                   rayRectHit(ox, oy, d, b), bestBall(ox, oy, d, targets))

\* The ray bounds: the surface inset by ballR.
rayBounds ==
  [minX |-> table.surface.x + table.ballR,
   maxX |-> table.surface.x + table.surface.w - table.ballR,
   minY |-> table.surface.y + table.ballR,
   maxY |-> table.surface.y + table.surface.h - table.ballR]

predictorStart(ox, oy) ==
  [points |-> << [x |-> ox, y |-> oy] >>, hitBall |-> None, passes |-> <<>>]

\* drawTrajectoryPredictor(startX, startY, angle), d = (cos, sin)(angle):
\* the points of the path, the ball it ends on, and the passes of the loop.
drawTrajectoryPredictor(g, startX, startY, d) ==
  predictFrom(0,
              constrain(startX, rayBounds.minX, rayBounds.maxX),
              constrain(startY, rayBounds.minY, rayBounds.maxY),
              d,
              SelectSeq(g.reds \o g.colours, LAMBDA t : ~t.potted),
              rayBounds,
              predictorStart(constrain(startX, rayBounds.minX, rayBounds.maxX),
                             constrain(startY, rayBounds.minY, rayBounds.maxY)))
\* ----------------------------------------------------------------- bounds
\* Shots fired per run, reds per layout, colours the engine may move (the
\* last ones of the list: black, then pink), frames with an aim key held.
MaxShots == 2
NumReds == 1
MovableColours == 1
MaxKeyTicks == 1
\* Shots fired in the runs that fill the shot log.
LogShots == 62
\* Period of the kinds of draws in the runs over the layouts.
DrawPeriod == 1

\* ----------------------------------------------------------------- inputs
Px(k) == k * Scale

\* Clicks: inside the D; just right of the baulk line; left of the D's arc;
\* on the RESET button.
ClickPoints ==
  { [x |-> Px(200), y |-> Px(364)],
    [x |-> Px(237), y |-> Px(364)],
    [x |-> Px(150), y |-> Px(364)],
    [x |-> Px(50),  y |-> Px(700)] }

\* Held aim keys, one at a time.
KeySets == {{}, {"A"}, {"D"}, {"W"}, {"S"}}

\* Random points of the clustered layout: one inside the cluster region.
ClusterPoints ==
  LET s == table.surface
  IN  { [x |-> s.x + MulFrac(s.w, 60, 100), y |-> s.y + MulFrac(s.h, 30, 100)] }

\* What the random draws of the clustered layout may give for red i: no
\* attempt that passes the tests; the same point for every red; points in a
\* row exactly 2.05 ballR apart; points in a row well apart; the blue spot;
\* a point off the surface.
DrawKinds == {"none", "same", "touch", "apart", "spot", "off"}

DrawnPoint(kind, i) ==
  LET s == table.surface
      p == CHOOSE q \in ClusterPoints : TRUE
      minDist == MulFrac(table.ballR, 205, 100)
  IN  IF kind = "none" THEN None
      ELSE IF kind = "same" THEN Some(p)
      ELSE IF kind = "touch"
        THEN Some([x |-> p.x + (i - 1) * minDist, y |-> p.y + 2 * table.ballD])
      ELSE IF kind = "apart"
        THEN Some([x |-> p.x + (i - 1) * table.ballD * 2,
                   y |-> p.y + 4 * table.ballD])
      ELSE IF kind = "spot" THEN Some(table.spots.blue)
      ELSE Some([x |-> s.x + s.w, y |-> p.y])

\* The draws for n reds: the kinds repeat with period lim.draws; with period
\* 0 no draw ever passes.
ClusterDraws(n) ==
  IF lim.draws = 0 THEN {[i \in 1..n |-> None]}
  ELSE {[i \in 1..n |-> DrawnPoint(f[((i - 1) % lim.draws) + 1], i)] :
          f \in [1..lim.draws -> DrawKinds]}

\* The draws a key press may consume: those of the clustered layout when the
\* key lays it, none otherwise.
DrawsFor(key) ==
  IF key = "2" \/ (mode = 2 /\ key \in {"Enter", "n", "N"})
    THEN ClusterDraws(lim.reds)
    ELSE {[i \in 1..lim.reds |-> None]}

\* A drag that leaves the pointer at pct hundredths of the full drag length.
DragTo(pct) == (table.ballD * 10 * pct) \div 100

Kind(b) == IF b.isCue THEN "cue" ELSE IF b.isRed THEN "red" ELSE "colour"

\* ------------------------------------------------------------------ runs
\* A run is bounded by lim: the shots fired, the fires between two frames,
\* the reds of a layout, the
\* colours the engine may move, the frames in which a held key changes the
\* aim, what the engine may do to each kind of ball, and the inputs offered.
MainLimits ==
  [shots |-> MaxShots, fires |-> MaxShots,
   reds |-> NumReds, cols |-> MovableColours, keys |-> 0,
   tags |-> [cue |-> {"stop", "roll", "pocket"},
             red |-> Tags,
             colour |-> {"stop", "roll", "pocket"}],
   drags |-> {DragTo(35)},
   pointers |-> {0},
   pressed |-> {"1", "Enter", " ", "c"}, draws |-> 0, clicks |-> {}]

\* Long runs on a quiet table: only the cue ball moves, nothing is potted,
\* one fire per frame.
LogLimits ==
  [shots |-> LogShots, fires |-> 1,
   reds |-> NumReds, cols |-> 0, keys |-> 0,
   tags |-> [cue |-> {"stop", "roll"}, red |-> {"stop"}, colour |-> {"stop"}],
   drags |-> {DragTo(35)},
   pointers |-> {0},
   pressed |-> {"Enter", " "}, draws |-> 0, clicks |-> {}]

\* Runs of one shot in which the aim is worked: a pointer off the axis, held
\* aim keys, drags to nothing and to beyond the full length.
AimLimits ==
  [shots |-> 1, fires |-> 1,
   reds |-> NumReds, cols |-> 0, keys |-> MaxKeyTicks,
   tags |-> [cue |-> {"stop", "roll", "pocket"},
             red |-> {"stop", "roll"},
             colour |-> {"stop"}],
   drags |-> {DragTo(0), DragTo(250)},
   pointers |-> {157},
   pressed |-> {"1", " ", "c"}, draws |-> 0, clicks |-> {}]

\* Runs over the three layouts with the full set of reds: only the cue ball
\* moves, the draws of the clustered layout vary.
LayoutLimits ==
  [shots |-> 1, fires |-> 1,
   reds |-> RedCount, cols |-> 0, keys |-> 0,
   tags |-> [cue |-> {"stop", "roll"}, red |-> {"stop"}, colour |-> {"stop"}],
   drags |-> {DragTo(35)},
   pointers |-> {0},
   pressed |-> {"1", "2", "3", " "}, draws |-> DrawPeriod, clicks |-> {}]

\* Clicks in the D next to the colours of the baulk line: half a pixel left
\* of the brown spot, a pixel off the green and the yellow spots, and 14.5 px
\* left of the brown spot (2.05 x ballR is 14.01 px).
BaulkClicks ==
  { [x |-> Px(236), y |-> Px(364)],
    [x |-> Px(236), y |-> Px(291)],
    [x |-> Px(236), y |-> Px(437)],
    [x |-> Px(222), y |-> Px(364)] }

\* Runs of one shot in which the cue ball is placed about the baulk line.
PlacementLimits ==
  [shots |-> 1, fires |-> 1,
   reds |-> NumReds, cols |-> 0, keys |-> 0,
   tags |-> [cue |-> {"stop", "roll", "pocket"},
             red |-> {"stop"},
             colour |-> {"stop"}],
   drags |-> {DragTo(35)},
   pointers |-> {0},
   pressed |-> {"1", " "}, draws |-> 0, clicks |-> BaulkClicks]

\* What the engine may do in one frame: a tag for each movable body, or
\* nothing at all in a world at rest.
EngineChoices(g) ==
  IF worldActive(g)
    THEN LET mv == movable(g, lim.cols)
             of(kind) == {k \in mv : Kind(BallAt(g, k)) = kind}
         IN  {a @@ b @@ c : a \in [of("cue") -> lim.tags.cue],
                            b \in [of("red") -> lim.tags.red],
                            c \in [of("colour") -> lim.tags.colour]}
    ELSE {<<>>}

Event(op, key, px, py, trace) ==
  [op |-> op, key |-> key, x |-> px, y |-> py, trace |-> trace]

\* The variables after handler op has turned the globals into g.
Commit(g, op, key, px, py) ==
  /\ reds' = g.reds
  /\ colours' = g.colours
  /\ cueBall' = g.cueBall
  /\ world' = g.world
  /\ mode' = g.mode
  /\ gameOver' = g.gameOver
  /\ aimAngle' = g.aimAngle
  /\ aimPower' = g.aimPower
  /\ isAiming' = g.isAiming
  /\ dragPower' = g.dragPower
  /\ shotsTaken' = g.shotsTaken
  /\ shotInProgress' = g.shotInProgress
  /\ shotPottedThisShot' = g.shotPottedThisShot
  /\ shotFoulThisShot' = g.shotFoulThisShot
  /\ shotLog' = g.shotLog
  /\ resetRect' = g.resetRect
  /\ potsOpen' = g.potsOpen
  /\ hist' = g.hist
  /\ ev' = Event(op, key, px, py, g.trace)
  /\ lim' = lim

\* The globals as declared, before setup() runs.
Declared ==
  [reds |-> <<>>, colours |-> <<>>, cueBall |-> None, world |-> {},
   mode |-> 1, gameOver |-> FALSE, aimAngle |-> 0, aimPower |-> 35,
   isAiming |-> FALSE, dragPower |-> None,
   shotsTaken |-> 0, shotInProgress |-> FALSE,
   shotPottedThisShot |-> <<>>, shotFoulThisShot |-> FALSE, shotLog |-> <<>>,
   resetRect |-> None, potsOpen |-> <<>>, hist |-> <<>>, trace |-> <<>>]

\* setup(): the geometry, then setMode(1).
setup(n) == setMode(Declared, 1, n, <<>>)

InitWith(l) ==
  \E g \in {setup(l.reds)} :
      /\ lim = l
      /\ reds = g.reds
      /\ colours = g.colours
      /\ cueBall = g.cueBall
      /\ world = g.world
      /\ mode = g.mode
      /\ gameOver = g.gameOver
      /\ aimAngle = g.aimAngle
      /\ aimPower = g.aimPower
      /\ isAiming = g.isAiming
      /\ dragPower = g.dragPower
      /\ shotsTaken = g.shotsTaken
      /\ shotInProgress = g.shotInProgress
      /\ shotPottedThisShot = g.shotPottedThisShot
      /\ shotFoulThisShot = g.shotFoulThisShot
      /\ shotLog = g.shotLog
      /\ resetRect = g.resetRect
      /\ potsOpen = g.potsOpen
      /\ hist = g.hist
      /\ keyTicks = 0
      /\ mouseDown = FALSE
      /\ ev = Event("setup", "", 0, 0, g.trace)

Init == InitWith(MainLimits)

\* ---------------------------------------------------------------- actions
\* The impulses applied since the last frame.
PendingFires == IF cueBall = None THEN 0 ELSE Len(cueBall[1].body.force)

\* One frame.  Aim keys are held until they have changed the aim in lim.keys
\* frames.
Draw ==
  \E ch \in EngineChoices(Globals), pointer \in lim.pointers,
     keys \in IF keyTicks < lim.keys THEN KeySets ELSE {{}} :
    \E g \in {draw(Globals, ch, pointer, keys)} :
      /\ keyTicks' = IF keys # {} /\ g # draw(Globals, ch, pointer, {})
                      THEN keyTicks + 1 ELSE keyTicks
      /\ mouseDown' = mouseDown
      /\ Commit(g, "draw", "", 0, 0)

KeyPress ==
  \E key \in lim.pressed :
    \E draws \in DrawsFor(key) :
      \E g \in {keyPressed(Globals, key, lim.reds, draws)} :
        /\ key = " " => shotsTaken < lim.shots /\ PendingFires < lim.fires
        /\ Commit(g, "keyPressed", key, 0, 0)
        /\ UNCHANGED <<keyTicks, mouseDown>>

MousePress ==
  \E pt \in ClickPoints \cup lim.clicks, draws \in ClusterDraws(lim.reds) :
    \E g \in {mousePressed(Globals, pt.x, pt.y, lim.reds, draws)} :
      /\ ~mouseDown
      /\ mouseDown' = TRUE
      /\ Commit(g, "mousePressed", "", pt.x, pt.y)
      /\ UNCHANGED keyTicks

MouseDrag ==
  \E d \in lim.drags :
    \E g \in {mouseDragged(Globals, d)} :
      /\ mouseDown
      /\ Commit(g, "mouseDragged", "", d, 0)
      /\ UNCHANGED <<keyTicks, mouseDown>>

MouseRelease ==
  \E g \in {mouseReleased(Globals)} :
    /\ mouseDown
    /\ mouseDown' = FALSE
    /\ shotsTaken < lim.shots /\ PendingFires < lim.fires
    /\ Commit(g, "mouseReleased", "", 0, 0)
    /\ UNCHANGED keyTicks

Next == Draw \/ KeyPress \/ MousePress \/ MouseDrag \/ MouseRelease

Spec == Init /\ [][Next]_vars

SpecLog == InitWith(LogLimits) /\ [][Next]_vars

SpecAim == InitWith(AimLimits) /\ [][Next]_vars

SpecLayouts == InitWith(LayoutLimits) /\ [][Next]_vars

SpecPlacement == InitWith(PlacementLimits) /\ [][Next]_vars


\* The calls of the handler that ran last.
Calls(name) == {i \in 1..Len(ev.trace) : ev.trace[i].call = name}

\* ------------------------------------------------------- geometry alone
\* rebuildTableGeometry reads the canvas size (width, height).  The runs
\* below call it once on a canvas of any of these sizes, before anything
\* else exists: multiples of 160 x 90 up to CanvasSteps, the sizes at which
\* the side panel is reserved or not, the bars fill the height, and the
\* table is 900 long.
CanvasSteps == 8

CanvasWidths == {160 * k : k \in 0..CanvasSteps} \cup {979, 980, 1196}
CanvasHeights == {90 * k : k \in 0..CanvasSteps} \cup {72, 73, 596}

InitGeometry ==
  \E w \in CanvasWidths, h \in CanvasHeights :
    /\ lim = [canvas |-> [w |-> w, h |-> h]]
    /\ reds = Declared.reds
    /\ colours = Declared.colours
    /\ cueBall = Declared.cueBall
    /\ world = Declared.world
    /\ mode = Declared.mode
    /\ gameOver = Declared.gameOver
    /\ aimAngle = Declared.aimAngle
    /\ aimPower = Declared.aimPower
    /\ isAiming = Declared.isAiming
    /\ dragPower = Declared.dragPower
    /\ shotsTaken = Declared.shotsTaken
    /\ shotInProgress = Declared.shotInProgress
    /\ shotPottedThisShot = Declared.shotPottedThisShot
    /\ shotFoulThisShot = Declared.shotFoulThisShot
    /\ shotLog = Declared.shotLog
    /\ resetRect = Declared.resetRect
    /\ potsOpen = Declared.potsOpen
    /\ hist = Declared.hist
    /\ keyTicks = 0
    /\ mouseDown = FALSE
    /\ ev = Event("load", "", 0, 0, <<>>)

\* One call of rebuildTableGeometry(); the table it builds is kept in the
\* record of the call.
RebuildGeometry ==
  /\ ev.op = "load"
  /\ ev' = Event("rebuildTableGeometry", "", lim.canvas.w, lim.canvas.h,
                 << [call |-> "rebuildTableGeometry",
                     table |-> rebuildTableGeometry(lim.canvas.w, lim.canvas.h)] >>)
  /\ UNCHANGED <<reds, colours, cueBall, world, mode, gameOver, aimAngle,
                 aimPower, isAiming, dragPower, shotsTaken, shotInProgress,
                 shotPottedThisShot, shotFoulThisShot, shotLog, resetRect,
                 potsOpen, hist, keyTicks, mouseDown, lim>>

NextGeometry == RebuildGeometry

SpecGeometry == InitGeometry /\ [][NextGeometry]_vars
\* ------------------------------------------------------- predictor alone
\* drawTrajectoryPredictor changes nothing; the runs below call it once on a
\* table at rest: the standard layout with the reds live or all potted, the
\* cue ball on a point of a grid over the surface (its edges included), and
\* the aim along any of the directions.
PredictorGrid == 3

Origins ==
  {[x |-> table.surface.x + (i * table.surface.w) \div PredictorGrid,
    y |-> table.surface.y + (j * table.surface.h) \div PredictorGrid] :
     i \in 0..PredictorGrid, j \in 0..PredictorGrid}

Directions ==
  {d \in [x : -DirDen..DirDen, y : -DirDen..DirDen] :
     d.x * d.x + d.y * d.y = DirDen * DirDen}

\* The table of setup() after play: the reds potted or not, the cue ball at
\* rest on o.
tableAtRest(o, redsDown) ==
  LET g == setup(RedCount)
      rs == [k \in 1..Len(g.reds) |-> [g.reds[k] EXCEPT !.potted = redsDown]]
  IN  [g EXCEPT !.reds = rs,
                !.world = Ids(g.colours) \cup (IF redsDown THEN {} ELSE Ids(rs))
                            \cup {CueId},
                !.cueBall = Some(createBall(o.x, o.y, table.ballR, CueColour,
                                            CueId, TRUE, FALSE)),
                !.resetRect = Some(resetButton)]

InitPredictor ==
  \E o \in Origins, d \in Directions, redsDown \in BOOLEAN :
    \E g \in {tableAtRest(o, redsDown)} :
      /\ lim = [dir |-> d]
      /\ reds = g.reds
      /\ colours = g.colours
      /\ cueBall = g.cueBall
      /\ world = g.world
      /\ mode = g.mode
      /\ gameOver = g.gameOver
      /\ aimAngle = g.aimAngle
      /\ aimPower = g.aimPower
      /\ isAiming = g.isAiming
      /\ dragPower = g.dragPower
      /\ shotsTaken = g.shotsTaken
      /\ shotInProgress = g.shotInProgress
      /\ shotPottedThisShot = g.shotPottedThisShot
      /\ shotFoulThisShot = g.shotFoulThisShot
      /\ shotLog = g.shotLog
      /\ resetRect = g.resetRect
      /\ potsOpen = g.potsOpen
      /\ hist = g.hist
      /\ keyTicks = 0
      /\ mouseDown = FALSE
      /\ ev = Event("draw", "", 0, 0, <<>>)

\* The predictor's call in drawCueAndGuides, on the cue ball's position.
Predict ==
  /\ Calls("drawTrajectoryPredictor") = {}
  /\ ev' = Event("drawCueAndGuides", "",
                 cueBall[1].body.position.x, cueBall[1].body.position.y,
                 << [call |-> "drawTrajectoryPredictor", d |-> lim.dir,
                     path |-> drawTrajectoryPredictor(
                                Globals, cueBall[1].body.position.x,
                                cueBall[1].body.position.y, lim.dir)] >>)
  /\ UNCHANGED <<reds, colours, cueBall, world, mode, gameOver, aimAngle,
                 aimPower, isAiming, dragPower, shotsTaken, shotInProgress,
                 shotPottedThisShot, shotFoulThisShot, shotLog, resetRect,
                 potsOpen, hist, keyTicks, mouseDown, lim>>

NextPredictor == Predict

SpecPredictor == InitPredictor /\ [][NextPredictor]_vars
\* The variables hold the globals g, in a run with limits l whose last
\* handler left the record e.
StateIs(g, l, e) ==
  /\ lim = l
  /\ reds = g.reds
  /\ colours = g.colours
  /\ cueBall = g.cueBall
  /\ world = g.world
  /\ mode = g.mode
  /\ gameOver = g.gameOver
  /\ aimAngle = g.aimAngle
  /\ aimPower = g.aimPower
  /\ isAiming = g.isAiming
  /\ dragPower = g.dragPower
  /\ shotsTaken = g.shotsTaken
  /\ shotInProgress = g.shotInProgress
  /\ shotPottedThisShot = g.shotPottedThisShot
  /\ shotFoulThisShot = g.shotFoulThisShot
  /\ shotLog = g.shotLog
  /\ resetRect = g.resetRect
  /\ potsOpen = g.potsOpen
  /\ hist = g.hist
  /\ keyTicks = 0
  /\ mouseDown = FALSE
  /\ ev = e

\* -------------------------------------------------------- stepping alone
\* The frame time deltaTime is p5's; the runs below take one frame of any
\* length up to MaxDelta (in 1/6 ms) on the table of setup().
MaxDelta == 260

InitStepping ==
  \E dt \in 0..MaxDelta :
    \E g \in {setup(NumReds)} :
      StateIs(g, [deltaTime |-> dt], Event("setup", "", 0, 0, g.trace))

\* The Engine.update calls of stepPhysics(), with their step sizes.
StepPhysics ==
  /\ Calls("stepPhysics") = {}
  /\ ev' = Event("draw", "", 0, 0,
                 << [call |-> "stepPhysics", deltaTime |-> lim.deltaTime,
                     updates |-> engineUpdates(lim.deltaTime)] >>)
  /\ UNCHANGED <<reds, colours, cueBall, world, mode, gameOver, aimAngle,
                 aimPower, isAiming, dragPower, shotsTaken, shotInProgress,
                 shotPottedThisShot, shotFoulThisShot, shotLog, resetRect,
                 potsOpen, hist, keyTicks, mouseDown, lim>>

NextStepping == StepPhysics

SpecStepping == InitStepping /\ [][NextStepping]_vars
\* --------------------------------------------------------- escapes alone
\* The engine can let a fast ball through a cushion.  The runs below call
\* stepBalls once on the table of setup() with the first red live or
\* potted, rolling or not, at a point near the lines of the failsafe: up to
\* EscapeSteps units either side of each margin line, and mid-table.
EscapeSteps == 2

EscapeXs ==
  {table.surface.x + table.surface.w \div 2}
    \cup {table.surface.x - 4 * table.ballR + k : k \in -EscapeSteps..EscapeSteps}
    \cup {table.surface.x + table.surface.w + 4 * table.ballR + k :
            k \in -EscapeSteps..EscapeSteps}

EscapeYs ==
  {table.surface.y + table.surface.h \div 2}
    \cup {table.surface.y - 4 * table.ballR + k : k \in -EscapeSteps..EscapeSteps}
    \cup {table.surface.y + table.surface.h + 4 * table.ballR + k :
            k \in -EscapeSteps..EscapeSteps}

\* The table of setup() with its first red at (x, y), moving at v.
tableWithStray(x, y, v, potted) ==
  LET g == setup(NumReds)
  IN  [g EXCEPT !.reds[1].body.position = [x |-> x, y |-> y],
                !.reds[1].body.velocity = v,
                !.reds[1].potted = potted,
                !.world = IF potted THEN @ \ {g.reds[1].id} ELSE @]

InitEscape ==
  \E x \in EscapeXs, y \in EscapeYs, v \in {Zero, Roll}, potted \in BOOLEAN :
    \E g \in {tableWithStray(x, y, v, potted)} :
      StateIs(g, [stray |-> 1], Event("stepPhysics", "", 0, 0, <<>>))

\* The stepBalls() call of a frame.
StepBalls ==
  \E g \in {stepBalls(Globals)} :
    /\ ev.op = "stepPhysics"
    /\ Commit(g, "stepBalls", "", 0, 0)
    /\ UNCHANGED <<keyTicks, mouseDown>>

NextEscape == StepBalls

SpecEscape == InitEscape /\ [][NextEscape]_vars
\* ----------------------------------------------------------------- claims

HasCue(pots) == \E j \in 1..Len(pots) : pots[j].isCue
HasOther(pots) == \E j \in 1..Len(pots) : ~pots[j].isCue

\* C1: every shot closed by finalizeShotIfSettled is logged as Foul if the cue
\* ball was potted while it was open, whatever else was potted; otherwise as
\* Potted if some other ball was potted while it was open; otherwise as Miss.
C1_Outcome ==
  \A i \in Calls("finalize") :
    LET e == ev.trace[i]
    IN  /\ e.entry.outcome \in {"Foul", "Potted", "Miss"}
        /\ e.entry.outcome = "Foul" <=> HasCue(e.pots)
        /\ e.entry.outcome = "Potted" <=> ~HasCue(e.pots) /\ HasOther(e.pots)
        /\ e.entry.outcome = "Miss" <=> e.pots = <<>>

\* A shot in which the cue ball and another ball went down is closed.
C1_Witness ==
  \E i \in Calls("finalize") :
    /\ HasCue(ev.trace[i].pots)
    /\ HasOther(ev.trace[i].pots)
    /\ ev.trace[i].entry.outcome = "Foul"

\* The last k entries of a sequence, all of it if it is shorter.
LastOf(seq, k) == SubSeq(seq, IF Len(seq) > k THEN Len(seq) - k + 1 ELSE 1, Len(seq))

\* C2: shotLog never holds more than 60 entries, and it is the most recent
\* (up to 60) shots finalized since the last reset, in the order they were
\* finalized: the 61st entry pushes out the oldest.
C2_LogFifo ==
  /\ Len(shotLog) <= 60
  /\ shotLog = LastOf(hist, 60)

\* The 61st shot has been finalized and the first one is gone.
C2_Witness ==
  /\ Len(hist) = 61
  /\ Len(shotLog) = 60
  /\ shotLog[1] = hist[2]
  /\ shotLog[60] = hist[61]

\* A reset ran in the handler that brought the machine here.
WasReset == Calls("setMode") # {}

Live == {b \in {AllBalls(Globals)[i] : i \in 1..Len(AllBalls(Globals))} : ~b.potted}

Slow(v) == abs(v.x) * 100 < 8 * Scale /\ abs(v.y) * 100 < 8 * Scale
Fast(v) == abs(v.x) * 100 > 8 * Scale \/ abs(v.y) * 100 > 8 * Scale

CanFire ==
  /\ cueBall # None
  /\ Slow(cueBall[1].body.velocity)
  /\ \A b \in Live : ~Fast(b.body.velocity)

ShotState == <<shotsTaken, shotInProgress, shotPottedThisShot, shotFoulThisShot, shotLog>>
BallState == <<reds, colours, cueBall, world>>

\* C4: a fire command (space, or the release of an aiming drag) is accepted
\* only when a cue ball exists, it is at rest and no live ball is moving; a
\* rejected one leaves the shot counter, the shot flags, the shot log and
\* every ball as they were and applies no impulse.
C4_Fire ==
  [][LET fire == \/ ev'.op = "keyPressed" /\ ev'.key = " "
                 \/ ev'.op = "mouseReleased" /\ isAiming
         accepted == \E i \in 1..Len(ev'.trace) : ev'.trace[i].call = "applyForce"
     IN  fire =>
           /\ accepted => CanFire /\ shotsTaken' = shotsTaken + 1 /\ shotInProgress'
           /\ ~accepted => ShotState' = ShotState /\ BallState' = BallState
    ]_vars

\* Space was pressed while a ball was rolling, and nothing was fired.
C4_Witness ==
  /\ ev.op = "keyPressed" /\ ev.key = " "
  /\ Calls("applyForce") = {}
  /\ cueBall # None
  /\ ~gameOver
  /\ \E b \in Live : Fast(b.body.velocity)

\* The D of the claims: inside the surface inset by ballR, not right of the
\* baulk line, within dRadius of dCenter.
InD(px, py) ==
  LET s == table.surface
      r == table.ballR
  IN  /\ s.x + r <= px /\ px <= s.x + s.w - r
      /\ s.y + r <= py /\ py <= s.y + s.h - r
      /\ px <= table.baulkX
      /\ DistLeq(px, py, table.dCenter.x, table.dCenter.y, table.dRadius)

\* C5: a click that reaches the placement branch (not on RESET, frame not
\* over) creates a cue ball at the clicked point exactly when there is no cue
\* ball and the point is in the D; any other such click leaves the balls, the
\* cue-ball slot and the shot state as they were.
C5_Placement ==
  [][(ev'.op = "mousePressed" /\ ~WasReset') =>
       LET created == cueBall = None /\ cueBall' # None
       IN  /\ created <=> (cueBall = None /\ InD(ev'.x, ev'.y))
           /\ created =>
                /\ cueBall'[1].body.position = [x |-> ev'.x, y |-> ev'.y]
                /\ cueBall'[1].isCue /\ ~cueBall'[1].potted
                /\ world' = world \cup {cueBall'[1].id}
                /\ reds' = reds /\ colours' = colours
                /\ ShotState' = ShotState
           /\ ~created => ShotState' = ShotState /\ BallState' = BallState
    ]_vars

\* A click inside the circle of the D but right of the baulk line, with no
\* cue ball on the table, placed nothing.
C5_Witness ==
  /\ ev.op = "mousePressed" /\ ~WasReset
  /\ cueBall = None
  /\ ev.x > table.baulkX
  /\ DistLeq(ev.x, ev.y, table.dCenter.x, table.dCenter.y, table.dRadius)

\* Closer than 1.18 x pocketR to some pocket centre.
NearPocket(pos) ==
  \E i \in 1..Len(pockets) :
    DistLess(pos.x, pos.y, pockets[i].x, pockets[i].y, (table.pocketR * 118) \div 100)

StaysPotted(old, new, w) ==
  /\ Len(new) = Len(old)
  /\ \A k \in 1..Len(old) :
       /\ new[k].id = old[k].id
       /\ old[k].potted => new[k].potted /\ new[k].id \notin w

C9_Terminal ==
  [][gameOver =>
       IF WasReset'
         THEN /\ ~gameOver' /\ cueBall' = None
              /\ shotsTaken' = 0 /\ ~shotInProgress' /\ shotLog' = <<>>
              /\ \A b \in Live' : b.id \in world'
         ELSE gameOver' /\ ShotState' = ShotState /\ BallState' = BallState
    ]_vars

\* The frame is over with a resting cue ball on the table, and space fired
\* nothing.
C9_Witness ==
  /\ gameOver
  /\ ev.op = "keyPressed" /\ ev.key = " "
  /\ CanFire
  /\ Calls("applyForce") = {}

\* Nothing moves on the table: no live ball is above the rest threshold, or
\* the frame is over and the simulation is no longer stepped.
\* C7: every fired shot is finalized and logged, the shot during which the
\* frame ends included. A frame that is over is never simulated again
\* (C9), so the shot of a finished frame is closed by the tick that ended
\* the frame or never: a finished frame holds no open shot.
C7_Finalized == gameOver => ~shotInProgress

\* Ready: cue ball present and at rest, no ball moving, frame not over.
Ready == ~gameOver /\ CanFire

\* C8: short of a reset, aimAngle and aimPower change only while the state
\* is Ready (for a frame: once its simulation has run), and aimPower stays
\* within [0, 1], in hundredths.
C8_AimOnlyWhenReady ==
  [][/\ aimPower' \in 0..100
     /\ (~WasReset' /\ <<aimAngle, aimPower>>' # <<aimAngle, aimPower>>) =>
          IF ev'.op = "draw" THEN Ready' ELSE Ready
    ]_vars

\* C10: whenever potBall runs on a red or a colour a shot is open.
C10_PotsRecorded ==
  \A i \in Calls("potBall") : ~ev.trace[i].isCue => ev.trace[i].shotOpen

\* A list of balls just created: live, at rest, untouched, bodies in w.
Fresh(list, w) ==
  \A k \in 1..Len(list) :
    /\ ~list[k].potted
    /\ list[k].body.velocity = Zero /\ list[k].body.force = <<>>
    /\ list[k].id \in w

\* The initial NoCueBall state.
NoCueBall ==
  /\ cueBall = None
  /\ ~shotInProgress /\ shotPottedThisShot = <<>> /\ ~shotFoulThisShot
  /\ shotsTaken = 0 /\ shotLog = <<>> /\ ~gameOver
  /\ colours = createColouredBalls
  /\ Len(reds) >= 1 /\ \A k \in 1..Len(reds) : reds[k].isRed
  /\ Fresh(reds, world) /\ Fresh(colours, world)
  /\ world = Ids(reds) \cup Ids(colours)

MinSeparation == (table.ballR * 205) \div 100

Apart(a, b) ==
  ~DistLess(a.body.position.x, a.body.position.y,
            b.body.position.x, b.body.position.y, MinSeparation)

Touching(a, b) ==
  Apart(a, b) /\ DistLeq(a.body.position.x, a.body.position.y,
                         b.body.position.x, b.body.position.y, MinSeparation)

OnSurface(b) ==
  LET s == table.surface
      r == table.ballR
      p == b.body.position
  IN  /\ s.x + r <= p.x /\ p.x <= s.x + s.w - r
      /\ s.y + r <= p.y /\ p.y <= s.y + s.h - r

\* C12: in the layout a setMode call leaves, in each of the three modes, any
\* two distinct balls are at least 2.05 x ballR apart, centre to centre, and
\* every red lies inside the playing surface inset by ballR.
C12_LayoutSeparation ==
  WasReset =>
    LET all == reds \o colours
    IN  /\ \A i, j \in 1..Len(all) : i < j => Apart(all[i], all[j])
        /\ \A k \in 1..Len(reds) : OnSurface(reds[k])

\* A clustered layout of 15 reds, two of them exactly 2.05 x ballR apart.
C12_Witness ==
  /\ WasReset /\ mode = 2 /\ ev.op = "keyPressed"
  /\ Len(reds) = RedCount
  /\ \E i, j \in 1..Len(reds) : i < j /\ Touching(reds[i], reds[j])

SpotNames == {"yellow", "green", "brown", "blue", "pink", "black"}

\* The x coordinates of the reds: one for each row of the triangle.
RowsOf(list) == {list[k].body.position.x : k \in 1..Len(list)}

RowAt(list, x) == {k \in 1..Len(list) : list[k].body.position.x = x}

Built == {ev.trace[i].table : i \in Calls("rebuildTableGeometry")}

\* width = L / 2 and ballD = width / 36, to the last unit.
HalfAndBall(t) ==
  /\ t.w - 2 * t.h \in 0..1
  /\ t.h - 36 * t.ballD \in 0..35
  /\ t.w = 900 * Scale => t.h = 450 * Scale /\ 2 * t.ballD = 25 * Scale

\* C14 as stated: for every table length L that rebuildTableGeometry
\* computes, width = L / 2, ballD = width / 36 and pocketR = 1.5 x ballD
\* (for L = 900: 450, 12.5 and 18.75).
C14_PocketRadius ==
  \A t \in Built :
    /\ HalfAndBall(t)
    /\ 3 * t.ballD - 2 * t.pocketR \in 0..2
    /\ t.w = 900 * Scale => 4 * t.pocketR = 75 * Scale

\* C14 as the code has it: width = L / 2, ballD = width / 36, and the pocket
\* diameter is 1.5 x ballD, so pocketR = 0.75 x ballD (for L = 900: 450,
\* 12.5 and 9.375).
C14_PocketDiameter ==
  \A t \in Built :
    /\ HalfAndBall(t)
    /\ 3 * t.ballD - 4 * t.pocketR \in 0..3
    /\ t.w = 900 * Scale => 8 * t.pocketR = 75 * Scale

\* A table 900 long was built.
C14_Witness ==
  \E t \in Built : t.w = 900 * Scale /\ t.ballD > 0

\* C15: for every canvas size rebuildTableGeometry yields strictly positive
\* table length and width, ball diameter, pocket radius and playing-surface
\* width and height.
C15_PositiveGeometry ==
  \A t \in Built :
    /\ t.w > 0 /\ t.h > 0 /\ t.ballD > 0 /\ t.pocketR > 0
    /\ t.surface.w > 0 /\ t.surface.h > 0

\* The paths predicted by the handler that ran last.
Paths == {ev.trace[i].path : i \in Calls("drawTrajectoryPredictor")}

\* In this pass a ball hit comes strictly before the wall hit.
BallFirst(pass) ==
  pass.ball # None /\ (pass.wall = None \/ pass.ball[1].t < pass.wall[1].t)

\* The loop stops at the first pass in which a ball is hit before the wall,
\* and the path then ends on that ball.
StopsAtFirstBall(p) ==
  /\ \A k \in 1..Len(p.passes) :
       BallFirst(p.passes[k]) <=> (k = Len(p.passes) /\ p.hitBall # None)
  /\ p.hitBall # None =>
       p.hitBall[1] = p.passes[Len(p.passes)].ball[1].id

\* C16 as stated: the predictor makes at most maxBounces (3) passes of its
\* hit/reflect loop, so the path has at most 3 hit vertices after the
\* origin, and it stops at the first pass in which a ball hit comes strictly
\* before the wall hit.
C16_ThreePasses ==
  \A p \in Paths :
    /\ Len(p.passes) <= maxBounces
    /\ Len(p.points) - 1 <= maxBounces
    /\ StopsAtFirstBall(p)

\* C16 as the code has it: the loop runs for bounce = 0..maxBounces, at most
\* maxBounces + 1 (4) passes and hit vertices after the origin; it stops
\* before that only at the first pass with a ball hit strictly before the
\* wall hit, or with no wall hit at all.
C16_FourPasses ==
  \A p \in Paths :
    /\ Len(p.passes) <= maxBounces + 1
    /\ Len(p.points) - 1 <= maxBounces + 1
    /\ StopsAtFirstBall(p)
    /\ \A k \in 1..Len(p.passes) :
         (k < Len(p.passes) \/ Len(p.passes) < maxBounces + 1) =>
           (k = Len(p.passes)) =
             (BallFirst(p.passes[k]) \/ p.passes[k].wall = None)

\* A path with four hit vertices after the origin: three bounces and the
\* wall the last leg ends on.
C16_Witness ==
  \E p \in Paths :
    /\ Len(p.points) = maxBounces + 2 /\ p.hitBall = None
    /\ \A k \in 1..Len(p.passes) : p.passes[k].wall # None

Dot(a, b) == a.x * b.x + a.y * b.y

\* The component of d along the wall with normal n.
Along(d, n) == [x |-> d.x - Dot(d, n) * n.x, y |-> d.y - Dot(d, n) * n.y]

WallNormals ==
  {[x |-> -1, y |-> 0], [x |-> 1, y |-> 0], [x |-> 0, y |-> -1], [x |-> 0, y |-> 1]}

\* The passes of the predicted paths in which the ray was reflected.
Bounces ==
  UNION {{p.passes[k] : k \in {i \in 1..Len(p.passes) : p.passes[i].out # None}} :
           p \in Paths}

\* C17: for the incoming direction d and the wall normal n of every bounce
\* (n one of the four axis-aligned unit normals of rayRectHit), the
\* reflected direction d' has d'.n = -(d.n) and the same component along the
\* wall as d, and reflecting d' about n again gives d back.
C17_Reflection ==
  \A pass \in Bounces :
    /\ pass.wall[1].n \in WallNormals
    /\ Dot(pass.out[1], pass.wall[1].n) = -Dot(pass.d, pass.wall[1].n)
    /\ Along(pass.out[1], pass.wall[1].n) = Along(pass.d, pass.wall[1].n)
    /\ reflect(pass.out[1], pass.wall[1].n) = pass.d

\* A ray that is not along an axis bounced off a long cushion and then off a
\* short one.
C17_Witness ==
  \E p \in Paths :
    /\ Len(p.passes) >= 2
    /\ p.passes[1].out # None /\ p.passes[2].out # None
    /\ p.passes[1].d.x # 0 /\ p.passes[1].d.y # 0
    /\ p.passes[1].wall[1].n.x = 0 /\ p.passes[2].wall[1].n.y = 0

\* 1000 / 60 ms and 1000 / 30 ms, in 1/6 ms.
SixtiethOfSecond == (1000 * FrameUnit) \div 60
ThirtiethOfSecond == (1000 * FrameUnit) \div 30

\* C18: for a frame delta >= 0, stepPhysics clamps the delta to at most
\* 1000/30 ms, makes ceil(clamped delta / (1000/60)) engine updates, at
\* least 1 and at most 5, all of the same size, each at most 1000/60 ms
\* long, which together advance exactly the clamped delta; a delta of 0
\* makes one update of 0 ms.
C18_Substeps ==
  \A i \in Calls("stepPhysics") :
    LET u == ev.trace[i].updates
        clamped == min(ev.trace[i].deltaTime, ThirtiethOfSecond)
    IN  /\ Len(u) \in 1..5
        /\ Len(u) > 1 => (Len(u) - 1) * SixtiethOfSecond < clamped
        /\ Len(u) < 5 => clamped <= Len(u) * SixtiethOfSecond
        /\ \A k \in 1..Len(u) :
             /\ u[k] = u[1]
             /\ u[k].den > 0
             /\ u[k].num <= SixtiethOfSecond * u[k].den
             /\ Len(u) * u[k].num = clamped * u[k].den
        /\ ev.trace[i].deltaTime = 0 => Len(u) = 1 /\ u[1].num = 0

\* A frame longer than 1000/30 ms was stepped in two updates.
C18_Witness ==
  \E i \in Calls("stepPhysics") :
    /\ ev.trace[i].deltaTime > ThirtiethOfSecond
    /\ Len(ev.trace[i].updates) = 2

\* Within 4 x ballR of the playing surface on both axes.
WithinMargin(p) ==
  /\ table.surface.x - 4 * table.ballR <= p.x
  /\ p.x <= table.surface.x + table.surface.w + 4 * table.ballR
  /\ table.surface.y - 4 * table.ballR <= p.y
  /\ p.y <= table.surface.y + table.surface.h + 4 * table.ballR

\* The nearest point to p of the surface inset by ballR.
NearestInset(p) ==
  LET lox == table.surface.x + table.ballR
      hix == table.surface.x + table.surface.w - table.ballR
      loy == table.surface.y + table.ballR
      hiy == table.surface.y + table.surface.h - table.ballR
  IN  [x |-> IF p.x < lox THEN lox ELSE IF p.x > hix THEN hix ELSE p.x,
       y |-> IF p.y < loy THEN loy ELSE IF p.y > hiy THEN hiy ELSE p.y]

Corrected(old, new) ==
  \A k \in 1..Len(old) :
    ~old[k].potted =>
      /\ WithinMargin(new[k].body.position)
      /\ IF WithinMargin(old[k].body.position)
           THEN /\ new[k].body.position = old[k].body.position
                /\ new[k].body.velocity = Zero => old[k].body.velocity = Zero
           ELSE /\ new[k].body.position = NearestInset(old[k].body.position)
                /\ new[k].body.velocity = Zero

\* C19: after stepBalls every live ball is within 4 x ballR of the playing
\* surface on both axes: a ball found further out on either axis is moved to
\* the nearest point of the surface inset by ballR with velocity zero, and a
\* ball within the margin is neither moved nor stopped.
C19_Failsafe ==
  [][ev'.op = "stepBalls" =>
       /\ Len(reds') = Len(reds) /\ Len(colours') = Len(colours)
       /\ Len(cueBall') = Len(cueBall)
       /\ Corrected(reds, reds') /\ Corrected(colours, colours')
       /\ Corrected(cueBall, cueBall')
    ]_vars

\* A red that had escaped past a corner was put back on the inset surface, at rest.
C19_Witness ==
  /\ ev.op = "stepBalls"
  /\ ~reds[1].potted
  /\ reds[1].body.position.x = table.surface.x + table.ballR
  /\ reds[1].body.position.y = table.surface.y + table.surface.h - table.ballR
  /\ reds[1].body.velocity = Zero

\* The sequence numbers of the logged shots run 1, 2, 3, ... from the last
\* reset on.
Consecutive(log) == \A i \in 1..Len(log) : log[i].n = i

\* C20: a fire is accepted (shotsTaken counts it and one impulse is applied)
\* only while no shot is open, whatever the order of callbacks and frames; so
\* each accepted fire yields one shot-log entry and the logged sequence
\* numbers are consecutive from 1.
C20_OneFirePerShot ==
  [][/\ shotsTaken' > shotsTaken =>
          /\ ~shotInProgress
          /\ PendingFires = 0
          /\ shotsTaken' = shotsTaken + 1
     /\ Consecutive(hist')
    ]_vars

\* C21: a cue ball just placed by a click has its centre at least
\* 2.05 x ballR from the centre of every live red and colour, the brown, green
\* and yellow on the baulk line included.
C21_PlacementClear ==
  [][(ev'.op = "mousePressed" /\ cueBall = None /\ cueBall' # None) =>
       \A k \in 1..Len(reds' \o colours') :
         LET b == (reds' \o colours')[k]
             c == cueBall'[1].body.position
         IN  b.potted \/
               ~DistLess(c.x, c.y, b.body.position.x, b.body.position.y,
                         MulFrac(table.ballR, 205, 100))
    ]_vars
====
